---- MODULE Spec2Model ----
(***************************************************************************)
(* Admin authentication and session lifecycle of the petition site         *)
(* (src/src/routes/index.tsx, "Admin Authentication Service").             *)
(*                                                                         *)
(* Every browser instance runs one asynchronous call at a time; a call is  *)
(* a sequence of steps, one per awaited store request, and the steps of    *)
(* calls issued from different browser instances interleave freely.  The   *)
(* admin_session table is shared, localStorage is per browser instance.    *)
(***************************************************************************)
EXTENDS Integers, Sequences, FiniteSets

(***************************************************************************)
(* Bounds of the model.                                                    *)
(***************************************************************************)
MaxCalls == 3          \* calls started in one behaviour, all browsers together
MaxPanelCalls == MaxCalls + 2
                       \* calls started in one behaviour of the admin panel
MaxFaults == 1         \* adverse events in one behaviour: a store request
                       \* that throws, or a call started while the call of
                       \* another browser is running

Browsers == {"b1", "b2"}

\* Characters of a password: two printable ones and two kinds of whitespace.
WhiteSpace == {" ", "\t"}

\* Passwords a caller may type, as sequences of characters.
Passwords == { <<>>, <<" ", "\t">>, <<"a">>, <<" ", "b">> }

\* Date.now() values (milliseconds after an epoch that is a whole second) the
\* clock passes through: the issue of a session in second 0, the last
\* millisecond of the 24 hours that follow it, and the millisecond after.
ClockPoints == {500, 86400999, 86401000}

(***************************************************************************)
(* Program constants.                                                      *)
(***************************************************************************)
SESSION_DURATION_MS == 24 * 60 * 60 * 1000
PASSWORD_HASH_USER_ID == "__password_hash__"
ADMIN_USER_ID == "admin"

\* null / absent token; real tokens and digests are positive numbers.
Null == 0
\* NaN, the value of parseInt on a string with no leading digit.
NaN == -1
\* A 64 hex digit string that was never issued as a token and is no digest.
UnknownToken == 999

(***************************************************************************)
(* Pure helpers.                                                           *)
(***************************************************************************)
RECURSIVE TrimStart(_)
TrimStart(s) ==
  IF s # <<>> /\ Head(s) \in WhiteSpace THEN TrimStart(Tail(s)) ELSE s

RECURSIVE TrimEnd(_)
TrimEnd(s) ==
  IF s # <<>> /\ s[Len(s)] \in WhiteSpace
  THEN TrimEnd(SubSeq(s, 1, Len(s) - 1)) ELSE s

\* String.prototype.trim
Trim(s) == TrimEnd(TrimStart(s))

\* The guard of authenticateAdmin: !password || password.trim() === "".
IsBlankAlways(password) == password = <<>>
IsBlank(password) == password = <<>> \/ Trim(password) = <<>>

\* UTF-8 code of a character.
CharCode(c) ==
  CASE c = "\t" -> 9 [] c = " " -> 32 [] c = "a" -> 97 [] c = "b" -> 98

\* SHA-256 of the UTF-8 bytes, as a number standing for the 64 hex digits.
\* The digest is a deterministic function of the bytes alone and is injective
\* on the passwords of the model (collision resistance); 1000 keeps digests
\* apart from the tokens generateSessionToken draws.
RECURSIVE Digest(_, _)
Digest(bytes, acc) ==
  IF bytes = <<>> THEN acc
  ELSE Digest(Tail(bytes), acc * 257 + CharCode(Head(bytes)))

hashPassword(password) == 1000 + Digest(password, 0)

\* Number.prototype.toString for a non-negative integer: its decimal digits.
DigitChar(d) ==
  CASE d = 0 -> "0" [] d = 1 -> "1" [] d = 2 -> "2" [] d = 3 -> "3"
    [] d = 4 -> "4" [] d = 5 -> "5" [] d = 6 -> "6" [] d = 7 -> "7"
    [] d = 8 -> "8" [] d = 9 -> "9"

RECURSIVE NumToString(_)
NumToString(n) ==
  IF n < 10 THEN <<DigitChar(n)>>
  ELSE Append(NumToString(n \div 10), DigitChar(n % 10))

DigitValue(c) ==
  CASE c = "0" -> 0 [] c = "1" -> 1 [] c = "2" -> 2 [] c = "3" -> 3
    [] c = "4" -> 4 [] c = "5" -> 5 [] c = "6" -> 6 [] c = "7" -> 7
    [] c = "8" -> 8 [] c = "9" -> 9 [] OTHER -> NaN

\* parseInt(s, 10): the number written by the leading decimal digits of s,
\* NaN when there is none.
RECURSIVE ParseDigits(_, _)
ParseDigits(s, acc) ==
  IF s = <<>> \/ DigitValue(Head(s)) = NaN THEN acc
  ELSE ParseDigits(Tail(s), acc * 10 + DigitValue(Head(s)))

ParseInt(s) ==
  IF s = <<>> \/ DigitValue(Head(s)) = NaN THEN NaN ELSE ParseDigits(s, 0)

\* Math.floor(Date.now() / 1000)
NowSeconds(nowMs) == nowMs \div 1000

\* Math.floor((Date.now() + SESSION_DURATION_MS) / 1000).toString()
ExpiresAtShort(nowMs) ==
  NumToString((nowMs + SESSION_DURATION_MS) \div 1000 - 1)
ExpiresAt(nowMs) == NumToString((nowMs + SESSION_DURATION_MS) \div 1000)

\* now > expiresAt, false when expiresAt is NaN.
IsExpiredNever(nowMs, expires_at) == FALSE
IsExpiredEarly(nowMs, expires_at) ==
  ParseInt(expires_at) # NaN /\ NowSeconds(nowMs) >= ParseInt(expires_at)
IsExpired(nowMs, expires_at) ==
  ParseInt(expires_at) # NaN /\ NowSeconds(nowMs) > ParseInt(expires_at)

\* All orders in which a query may return the records of S.
Orderings(S) ==
  { q \in [1..Cardinality(S) -> S] :
      \A i, j \in 1..Cardinality(S) : i # j => q[i] # q[j] }

RECURSIVE WithoutPasswordHash(_)
WithoutPasswordHash(q) ==
  IF q = <<>> THEN <<>>
  ELSE IF Head(q).user_id # PASSWORD_HASH_USER_ID
       THEN <<Head(q)>> \o WithoutPasswordHash(Tail(q))
       ELSE WithoutPasswordHash(Tail(q))

\* The records the clean-up loop of authenticateAdmin deletes, of the ones
\* getAllAdminSession returned.
SessionsToCleanUpNone(q) == <<>>
SessionsToCleanUp(q) == WithoutPasswordHash(q)

\* The records the loop of storePasswordHash deletes, of the ones
\* getAdminSessionByUserId returned.
StaleHashesNone(q) == <<>>
StaleHashes(q) == q
(***************************************************************************)
(* The admin_session table (AdminSessionORM).  Each request is atomic.     *)
(***************************************************************************)
getAllAdminSession(table) == table
getAdminSessionByUserId(table, user_id) ==
  { r \in table : r.user_id = user_id }
getAdminSessionBySessionToken(table, token) ==
  { r \in table : r.session_token = token }
deleteAdminSessionById(table, id) == { r \in table : r.id # id }
deleteAdminSessionBySessionToken(table, token) ==
  { r \in table : r.session_token # token }
insertAdminSession(table, id, record) ==
  table \cup { [ record EXCEPT !.id = id ] }

\* The record storePasswordHash inserts (the store assigns the id).
PasswordHashRecordAsAdmin(hash) ==
  [ id |-> 0, session_token |-> hash, expires_at |-> <<"0">>,
    user_id |-> ADMIN_USER_ID ]
PasswordHashRecord(hash) ==
  [ id |-> 0, session_token |-> hash, expires_at |-> <<"0">>,
    user_id |-> PASSWORD_HASH_USER_ID ]

\* The record authenticateAdmin inserts.
SessionRecord(sessionToken, expiresAt) ==
  [ id |-> 0, session_token |-> sessionToken, expires_at |-> expiresAt,
    user_id |-> ADMIN_USER_ID ]

\* session.user_id === PASSWORD_HASH_USER_ID
IsPasswordHashRecordNever(session) == FALSE
IsPasswordHashRecord(session) == session.user_id = PASSWORD_HASH_USER_ID

\* crypto.getRandomValues over 32 bytes: a value no earlier call has drawn
\* (the tokens drawn so far are 1..issued).
generateSessionToken(issued) == issued + 1

(***************************************************************************)
(* State.                                                                  *)
(***************************************************************************)
VARIABLES
  store,         \* the admin_session table: a set of records
  nextId,        \* the id the store assigns to the next inserted record
  localStorage,  \* per browser: the admin_session_token slot, Null if empty
  call,          \* per browser: the frame of the call in progress
  returned,      \* history: the call that returned in the last step, if any
  clock,         \* Date.now(), milliseconds
  tokensIssued,  \* how many session tokens have been generated
  started,       \* how many calls have been started
  faults,        \* how many store requests have thrown, how many calls
                 \* started while another browser's call was running, and
                 \* (history) whether two authenticateAdmin calls did so
  lastIssue,     \* history: the last token authenticateAdmin returned
  disturbed,     \* history: a logout, reset, login or store failure since then
  signatureStore,  \* the petition_signature table: a set of records
  petition,      \* per browser: the petition form of App and its onSubmit
  seoStore,      \* the seo_setting table: a set of records
  seo,           \* the SEOProvider of each browser and its calls in progress
  panel          \* per browser: the admin panel of App and its handlers

vars == <<store, nextId, localStorage, call, returned, clock, tokensIssued, started,
          faults, lastIssue, disturbed, signatureStore, petition, seoStore, seo,
          panel>>

\* What the calls of the authentication service leave alone.
pageVars == <<signatureStore, petition, seoStore, seo>>

\* seo-settings.ts, lines 6 and 18-30.  A column that holds SQL NULL reads
\* as SeoNull.
SEO_SETTINGS_KEY == "__seo_settings__"
SeoNull == "<null>"
DEFAULT_SEO_SETTINGS ==
  [ siteTitle |->
      "Designed Not To Fail | UK Petition to Prevent Damp, Mould & Heat Loss",
    metaDescription |-> "Join the UK petition to prevent avoidable damp",
    ogTitle |->
      "Designed Not To Fail | UK Petition to Prevent Damp, Mould & Heat Loss",
    ogDescription |-> "Join the UK petition to prevent avoidable damp",
    ogImageUrl |-> "",
    canonicalUrl |-> "https://designednottofail.co.uk",
    twitterHandle |-> "" ]

\* The SEOProvider as it mounts, SEOContext.tsx lines 26-27 and 52-54:
\* refreshSettings is on its way.
MountedProvider ==
  [ pc |-> "get", op |-> "refreshSettings",
    settings |-> DEFAULT_SEO_SETTINGS, isLoading |-> TRUE,
    newSettings |-> DEFAULT_SEO_SETTINGS,  \* argument of updateSettings
    existing |-> {},            \* const existing of saveSEOSettings
    success |-> FALSE,          \* what updateSettings returned
    fresh |-> FALSE,            \* history: the call ended in the last step
    failed |-> FALSE,           \* history: a store request of it threw
    overlapped |-> FALSE,       \* history: another browser wrote meanwhile
    preStore |-> {} ]           \* history: the table when it was called

\* The admin panel of App, lines 112-116 and 202-205, before the page is
\* opened in the browser: no handler of it runs.
ClosedPanel ==
  [ mounted |-> FALSE,
    handler |-> "none",         \* the handler that is awaiting the service
    isAdminAuthenticated |-> FALSE,
    isAdminLoading |-> FALSE, isResettingPassword |-> FALSE,
    adminPasswordIsSet |-> "null",
    adminError |-> "none",      \* "none" is null
    signatures |-> {},
    isLoadingSignatures |-> FALSE,
    loading |-> 0,              \* loadAllSignatures calls in progress
    viaMount |-> FALSE ]        \* history: authenticated by the mount check

\* The panel as App mounts, lines 207-219: checkExistingSession is to run.
MountedPanel == [ ClosedPanel EXCEPT !.mounted = TRUE, !.handler = "mount" ]

\* The handlers of the panel continue when the service call they await
\* returns frame f: checkExistingSession (lines 210-216), handleAdminLogin
\* (lines 226-240, loadAllSignatures up to its await, line 145),
\* handleResetPassword (lines 251-264) and handleAdminLogout (lines 270-272).
Continue(p, f) ==
  IF p.handler = "mount" /\ f.op = "validateSession"
  THEN [ p EXCEPT !.handler = "mount_ips",
           !.isAdminAuthenticated = @ \/ f.retBool,
           !.viaMount = f.retBool ]
  ELSE IF p.handler = "mount_ips" /\ f.op = "isPasswordSet"
  THEN [ p EXCEPT !.handler = "none",
           !.adminPasswordIsSet = IF f.retBool THEN "true" ELSE "false" ]
  ELSE IF p.handler = "login" /\ f.op = "authenticateAdmin"
  THEN IF f.threw
       THEN [ p EXCEPT !.handler = "none", !.isAdminLoading = FALSE,
                !.adminError = "failed" ]
       ELSE IF f.retTok # Null
       THEN [ p EXCEPT !.handler = "none", !.isAdminLoading = FALSE,
                !.isAdminAuthenticated = TRUE, !.viaMount = FALSE,
                !.adminPasswordIsSet = "true",
                !.isLoadingSignatures = TRUE, !.loading = @ + 1 ]
       ELSE [ p EXCEPT !.handler = "none", !.isAdminLoading = FALSE,
                !.adminError = "incorrect" ]
  ELSE IF p.handler = "reset" /\ f.op = "resetAdminPassword"
  THEN IF f.retBool /\ ~f.threw
       THEN [ p EXCEPT !.handler = "none", !.isResettingPassword = FALSE,
                !.adminPasswordIsSet = "false",
                !.isAdminAuthenticated = FALSE, !.signatures = {} ]
       ELSE [ p EXCEPT !.handler = "none", !.isResettingPassword = FALSE ]
  ELSE IF p.handler = "logout" /\ f.op = "logoutAdmin"
  THEN [ p EXCEPT !.handler = "none", !.isAdminAuthenticated = FALSE,
           !.signatures = {} ]
  ELSE p

\* The panel of browser b after b's call moved to frame f.
AfterAwait(b, f) ==
  IF f.pc = "done" /\ b \in DOMAIN panel
  THEN [ panel EXCEPT ![b] = Continue(panel[b], f) ]
  ELSE panel

\* The petition form of App as the component mounts, lines 108-111 and 131:
\* loadSignatureCount is on its way.
IdleForm ==
  [ pc |-> "idle",
    email |-> "",               \* data.email of the onSubmit in progress
    isSubmitting |-> FALSE, submitSuccess |-> FALSE,
    submitError |-> "none",     \* "none" is null
    signatureCount |-> 0,
    counting |-> 1,             \* loadSignatureCount calls in progress
    outcome |-> "none",         \* history: how the last onSubmit ended
    fresh |-> FALSE,            \* history: it ended in the last step
    calls |-> 0,                \* history: store requests it made
    overlapped |-> FALSE,       \* history: another browser acted meanwhile
    preStore |-> {} ]           \* history: the table when it was called

IdleFrame ==
  [ pc |-> "idle", op |-> "none",
    password |-> <<>>,        \* argument of authenticateAdmin
    arg |-> Null,             \* argument of validateSession, Null if omitted
    token |-> Null,           \* const token of validateSession / logoutAdmin
    passwordHash |-> Null, storedHash |-> Null,
    list |-> <<>>,            \* records the running for-loop has still to visit
    sessionToken |-> Null, expiresAt |-> <<>>,
    nowRead |-> 0,            \* the Date.now() the call read
    retTok |-> Null, retBool |-> FALSE,
    calls |-> 0,              \* history: store requests made by the call
    failed |-> FALSE,         \* history: one of them threw
    failedAt |-> "none",      \* history: where the last of those was awaited
    threw |-> FALSE,          \* the call ended by throwing to its caller
    overlapped |-> FALSE,     \* history: another browser acted meanwhile
    preStore |-> {}, preSlot |-> Null ]   \* history: state at the call

InFlight(c) == call[c].pc # "idle"
Overlapping(b) == \E c \in Browsers \ {b} : InFlight(c)

\* The frame a call starts with.
Enter(b, op) ==
  [ IdleFrame EXCEPT !.op = op, !.preStore = store,
      !.preSlot = localStorage[b],
      !.overlapped = Overlapping(b) ]

\* No call has just returned.
NoReturn == [ by |-> "none", frame |-> IdleFrame ]

\* Browser b moves to frame f; the calls the other browsers have in progress
\* have been overlapped.  A frame at "done" is handed to the caller.
Step(b, f) ==
  /\ call' = [ c \in Browsers |->
              IF c = b THEN (IF f.pc = "done" THEN IdleFrame ELSE f)
              ELSE IF call[c].pc = "idle" THEN call[c]
              ELSE [ call[c] EXCEPT !.overlapped = TRUE ] ]
  /\ returned' = IF f.pc = "done" THEN [ by |-> b, frame |-> f ]
                 ELSE NoReturn
  /\ panel' = AfterAwait(b, f)
  /\ UNCHANGED pageVars

Request(f) == [ f EXCEPT !.calls = @ + 1 ]
Thrown(f) == [ f EXCEPT !.calls = @ + 1, !.failed = TRUE, !.failedAt = f.pc ]
ReturnTok(f, t) == [ f EXCEPT !.pc = "done", !.retTok = t, !.list = <<>> ]
ReturnBool(f, v) == [ f EXCEPT !.pc = "done", !.retBool = v, !.list = <<>> ]
ReturnVoid(f) == [ f EXCEPT !.pc = "done", !.list = <<>> ]

\* A rejected request throws inside a try block: the catch block of the
\* function turns frame f, where the request threw, into the frame handled.
CatchRethrow(f, handled) == [ f EXCEPT !.pc = "done", !.threw = TRUE, !.list = <<>> ]
Catch(f, handled) == handled

\* The step starts authenticateAdmin in browser b, past its blank-password
\* check, while another browser is inside authenticateAdmin.
AuthRace(b) ==
  /\ call'[b].op = "authenticateAdmin"
  /\ \E c \in Browsers \ {b} : call[c].op = "authenticateAdmin"

\* Browsers start out alike, so the first call is taken to be b1's.
CallBound ==
  IF \E c \in DOMAIN panel : panel[c].mounted THEN MaxPanelCalls
  ELSE MaxCalls

CanStart(b) ==
  /\ call[b].pc = "idle"
  /\ started = 0 => b = "b1"
  /\ started < CallBound
  /\ Overlapping(b) => faults.thrown + faults.overlaps < MaxFaults
Started(b) ==
  /\ started' = started + 1
  /\ faults' = IF Overlapping(b)
               THEN [ faults EXCEPT !.overlaps = @ + 1,
                        !.authRace = @ \/ AuthRace(b) ]
               ELSE faults
CanFail == faults.thrown + faults.overlaps < MaxFaults

SetSlot(b, v) == localStorage' = [ localStorage EXCEPT ![b] = v ]

\* Lines 1247-1251: the password is valid or was just set.
BeginSession(f) ==
  [ f EXCEPT !.pc = "auth_getAll",
      !.sessionToken = generateSessionToken(tokensIssued),
      !.expiresAt = ExpiresAt(clock), !.nowRead = clock, !.list = <<>> ]

\* The decision of lines 1235-1245 once storedHash is known.
PasswordMatchesAny(passwordHash, storedHash) == TRUE
PasswordMatches(passwordHash, storedHash) == passwordHash = storedHash

Constructed ==
  /\ store = {}
  /\ nextId = 1
  /\ localStorage = [ b \in Browsers |-> Null ]
  /\ call = [ b \in Browsers |-> IdleFrame ]
  /\ returned = NoReturn
  /\ clock = 500
  /\ tokensIssued = 0
  /\ started = 0
  /\ faults = [ thrown |-> 0, overlaps |-> 0, authRace |-> FALSE ]
  /\ lastIssue = [ token |-> Null, prev |-> Null, ms |-> 0, clean |-> FALSE ]
  /\ disturbed = FALSE

\* A part of the page that no browser has open: the service is called
\* without it.
NoPages == <<>>
NoPetition == signatureStore = {} /\ petition = NoPages
NoSeo == seoStore = {} /\ seo = NoPages
NoPanel == panel = NoPages

Init == Constructed /\ NoPetition /\ NoSeo /\ NoPanel

(***************************************************************************)
(* authenticateAdmin                                                       *)
(***************************************************************************)
authenticateAdmin(b) ==
  /\ CanStart(b)
  /\ \E password \in Passwords :
       LET f == [ Enter(b, "authenticateAdmin") EXCEPT !.password = password ]
       IN IF IsBlank(password)
          THEN Step(b, ReturnTok(f, Null))
          ELSE Step(b, [ f EXCEPT !.pc = "gsph",
                           !.passwordHash = hashPassword(password) ])
  /\ Started(b)
  /\ UNCHANGED <<store, nextId, localStorage, clock, tokensIssued,
                 lastIssue, disturbed>>

isPasswordSet(b) ==
  /\ CanStart(b)
  /\ Step(b, [ Enter(b, "isPasswordSet") EXCEPT !.pc = "gsph" ])
  /\ Started(b)
  /\ UNCHANGED <<store, nextId, localStorage, clock, tokensIssued,
                 lastIssue, disturbed>>

\* isPasswordSet, lines 1186-1187: hash !== null.
HashIsSetAlways(storedHash) == TRUE
HashIsSet(storedHash) == storedHash # Null

\* What authenticateAdmin and isPasswordSet do with the value
\* getStoredPasswordHash returned.
AfterStoredHash(b, f, storedHash) ==
  LET g == [ f EXCEPT !.storedHash = storedHash ]
      accepted == /\ f.op = "authenticateAdmin"
                  /\ storedHash # Null
                  /\ PasswordMatches(f.passwordHash, storedHash)
      next == IF f.op = "isPasswordSet"
              THEN ReturnBool(g, HashIsSet(storedHash))
              ELSE IF storedHash = Null THEN [ g EXCEPT !.pc = "sph_get" ]
              ELSE IF accepted THEN BeginSession(g)
              ELSE ReturnTok(g, Null)
  IN /\ Step(b, IF f.failed THEN Catch(f, next) ELSE next)
     /\ tokensIssued' = IF accepted THEN tokensIssued + 1 ELSE tokensIssued
     /\ disturbed' = (disturbed \/ accepted \/ f.failed)

getStoredPasswordHash(b) ==
  /\ call[b].pc = "gsph"
  /\ \/ /\ LET found == getAdminSessionByUserId(store, PASSWORD_HASH_USER_ID)
           IN \E storedHash \in
                  IF found = {} THEN {Null}
                  ELSE { r.session_token : r \in found } :
                AfterStoredHash(b, Request(call[b]), storedHash)
        /\ UNCHANGED faults
     \/ /\ CanFail
        /\ faults' = [ faults EXCEPT !.thrown = @ + 1 ]
        /\ AfterStoredHash(b, Thrown(call[b]), Null)
  /\ UNCHANGED <<store, nextId, localStorage, clock, started, lastIssue>>

\* The for-loops of the service visit the records a query returned and delete
\* some of them, one awaited request each: the next program point.
LoopOrElse(list, loopPc, elsePc) == IF list = <<>> THEN elsePc ELSE loopPc

\* authenticateAdmin, lines 1236-1239: storePasswordHash caught the error and
\* returned false (lines 1176-1179), so the login gives up.
NotStoredIgnored(f) == BeginSession(f)
NotStored(f) == ReturnTok(f, Null)

\* storePasswordHash, line 1156: the existing password hash records.
storePasswordHash_get(b) ==
  /\ call[b].pc = "sph_get"
  /\ \/ /\ \E q \in Orderings(
                 getAdminSessionByUserId(store, PASSWORD_HASH_USER_ID)) :
             Step(b, [ Request(call[b]) EXCEPT !.list = StaleHashes(q),
                         !.pc = LoopOrElse(StaleHashes(q),
                                           "sph_del", "sph_ins") ])
        /\ UNCHANGED <<faults, disturbed>>
     \/ /\ CanFail
        /\ faults' = [ faults EXCEPT !.thrown = @ + 1 ]
        /\ disturbed' = TRUE
        /\ Step(b, Catch(Thrown(call[b]),
                       NotStored(Thrown(call[b]))))
  /\ UNCHANGED <<store, nextId, localStorage, clock, tokensIssued, started,
                 lastIssue>>

\* storePasswordHash, lines 1157-1159.
storePasswordHash_delete(b) ==
  /\ call[b].pc = "sph_del"
  /\ \/ /\ store' = deleteAdminSessionById(store, Head(call[b].list).id)
        /\ Step(b, [ Request(call[b]) EXCEPT !.list = Tail(@),
                       !.pc = LoopOrElse(Tail(call[b].list),
                                         "sph_del", "sph_ins") ])
        /\ UNCHANGED <<faults, disturbed>>
     \/ /\ CanFail
        /\ faults' = [ faults EXCEPT !.thrown = @ + 1 ]
        /\ disturbed' = TRUE
        /\ Step(b, Catch(Thrown(call[b]),
                       NotStored(Thrown(call[b]))))
        /\ UNCHANGED store
  /\ UNCHANGED <<nextId, localStorage, clock, tokensIssued, started,
                 lastIssue>>

\* storePasswordHash, lines 1162-1175, and on its success lines 1247-1251.
storePasswordHash_insert(b) ==
  /\ call[b].pc = "sph_ins"
  /\ \/ /\ store' = insertAdminSession(store, nextId,
                      PasswordHashRecord(call[b].passwordHash))
        /\ nextId' = nextId + 1
        /\ Step(b, BeginSession(Request(call[b])))
        /\ tokensIssued' = tokensIssued + 1
        /\ disturbed' = TRUE
        /\ UNCHANGED faults
     \/ /\ CanFail
        /\ faults' = [ faults EXCEPT !.thrown = @ + 1 ]
        /\ disturbed' = TRUE
        /\ Step(b, Catch(Thrown(call[b]),
                       NotStored(Thrown(call[b]))))
        /\ UNCHANGED <<store, nextId, tokensIssued>>
  /\ UNCHANGED <<localStorage, clock, started, lastIssue>>

\* authenticateAdmin, lines 1257-1259: the sessions to clean up.
authenticateAdmin_getAll(b) ==
  /\ call[b].pc = "auth_getAll"
  /\ \/ /\ \E q \in Orderings(getAllAdminSession(store)) :
             LET old == SessionsToCleanUp(q)
             IN Step(b, [ Request(call[b]) EXCEPT !.list = old,
                            !.pc = LoopOrElse(old, "auth_del", "auth_ins") ])
        /\ UNCHANGED <<faults, disturbed>>
     \/ /\ CanFail
        /\ faults' = [ faults EXCEPT !.thrown = @ + 1 ]
        /\ disturbed' = TRUE
        /\ Step(b, Catch(Thrown(call[b]),
                       ReturnTok(Thrown(call[b]), Null)))
  /\ UNCHANGED <<store, nextId, localStorage, clock, tokensIssued, started,
                 lastIssue>>

\* authenticateAdmin, line 1260.
authenticateAdmin_delete(b) ==
  /\ call[b].pc = "auth_del"
  /\ \/ /\ store' = deleteAdminSessionById(store, Head(call[b].list).id)
        /\ Step(b, [ Request(call[b]) EXCEPT !.list = Tail(@),
                       !.pc = LoopOrElse(Tail(call[b].list),
                                         "auth_del", "auth_ins") ])
        /\ UNCHANGED <<faults, disturbed>>
     \/ /\ CanFail
        /\ faults' = [ faults EXCEPT !.thrown = @ + 1 ]
        /\ disturbed' = TRUE
        /\ Step(b, Catch(Thrown(call[b]),
                       ReturnTok(Thrown(call[b]), Null)))
        /\ UNCHANGED store
  /\ UNCHANGED <<nextId, localStorage, clock, tokensIssued, started,
                 lastIssue>>

\* authenticateAdmin, lines 1265-1281.
authenticateAdmin_insert(b) ==
  /\ call[b].pc = "auth_ins"
  /\ \/ /\ store' = insertAdminSession(store, nextId,
                      SessionRecord(call[b].sessionToken, call[b].expiresAt))
        /\ nextId' = nextId + 1
        /\ SetSlot(b, call[b].sessionToken)
        /\ Step(b, ReturnTok(Request(call[b]), call[b].sessionToken))
        /\ lastIssue' = [ token |-> call[b].sessionToken,
                          prev |-> lastIssue.token,
                          ms |-> call[b].nowRead,
                          clean |-> ~call[b].overlapped ]
        /\ disturbed' = \E c \in Browsers \ {b} :
                           /\ InFlight(c)
                           /\ call[c].op \in {"authenticateAdmin",
                                  "logoutAdmin", "resetAdminPassword"}
        /\ UNCHANGED faults
     \/ /\ CanFail
        /\ faults' = [ faults EXCEPT !.thrown = @ + 1 ]
        /\ disturbed' = TRUE
        /\ Step(b, Catch(Thrown(call[b]),
                       ReturnTok(Thrown(call[b]), Null)))
        /\ UNCHANGED <<store, nextId, localStorage, lastIssue>>
  /\ UNCHANGED <<clock, tokensIssued, started>>

(***************************************************************************)
(* validateSession                                                         *)
(***************************************************************************)
\* Tokens a caller may pass: none, an issued one, a stored digest, a stranger.
TokenArgs ==
  {Null, UnknownToken} \cup (1..tokensIssued)
    \cup { r.session_token : r \in store }

\* validateSession, line 1295: the argument, or else the token in the slot.
TokenToValidateArgOnly(sessionToken, slot) == sessionToken
TokenToValidate(sessionToken, slot) ==
  IF sessionToken # Null THEN sessionToken ELSE slot

\* validateSession, line 1329: a valid session is left as it is.
RecordAfterValidationRefreshed(session, nowMs) ==
  [ session EXCEPT !.expires_at = ExpiresAt(nowMs) ]
RecordAfterValidation(session, nowMs) == session

validateSession(b) ==
  /\ CanStart(b)
  /\ \E sessionToken \in TokenArgs :
       LET token == TokenToValidate(sessionToken, localStorage[b])
           f == [ Enter(b, "validateSession") EXCEPT
                    !.arg = sessionToken, !.token = token ]
       IN IF token = Null
          THEN Step(b, ReturnBool(f, FALSE))
          ELSE Step(b, [ f EXCEPT !.pc = "val_get" ])
  /\ Started(b)
  /\ UNCHANGED <<store, nextId, localStorage, clock, tokensIssued,
                 lastIssue, disturbed>>

\* validateSession, lines 1303-1329.
validateSession_get(b) ==
  /\ call[b].pc = "val_get"
  /\ \/ /\ LET f == [ Request(call[b]) EXCEPT !.nowRead = clock ]
               sessions == getAdminSessionBySessionToken(store, f.token)
           IN IF sessions = {}
              THEN /\ SetSlot(b, Null)
                   /\ Step(b, ReturnBool(f, FALSE))
                   /\ UNCHANGED store
              ELSE \E session \in sessions :
                     IF IsPasswordHashRecord(session)
                     THEN /\ SetSlot(b, Null)
                          /\ Step(b, ReturnBool(f, FALSE))
                          /\ UNCHANGED store
                     ELSE IF IsExpired(clock, session.expires_at)
                     THEN /\ Step(b, [ f EXCEPT !.pc = "val_del",
                                         !.list = <<session>> ])
                          /\ UNCHANGED <<store, localStorage>>
                     ELSE /\ Step(b, ReturnBool(f, TRUE))
                          /\ store' = (store \ {session}) \cup
                               { RecordAfterValidation(session, clock) }
                          /\ UNCHANGED localStorage
        /\ UNCHANGED <<faults, disturbed>>
     \/ /\ CanFail
        /\ faults' = [ faults EXCEPT !.thrown = @ + 1 ]
        /\ disturbed' = TRUE
        /\ Step(b, Catch(Thrown(call[b]),
                         ReturnBool([ Thrown(call[b]) EXCEPT
                                        !.nowRead = clock ], FALSE)))
        /\ UNCHANGED <<store, localStorage>>
  /\ UNCHANGED <<nextId, clock, tokensIssued, started, lastIssue>>

\* validateSession, lines 1322-1327: the session has expired.
validateSession_delete(b) ==
  /\ call[b].pc = "val_del"
  /\ \/ /\ store' = deleteAdminSessionById(store, Head(call[b].list).id)
        /\ SetSlot(b, Null)
        /\ Step(b, ReturnBool(Request(call[b]), FALSE))
        /\ UNCHANGED <<faults, disturbed>>
     \/ /\ CanFail
        /\ faults' = [ faults EXCEPT !.thrown = @ + 1 ]
        /\ disturbed' = TRUE
        /\ Step(b, Catch(Thrown(call[b]),
                       ReturnBool(Thrown(call[b]), FALSE)))
        /\ UNCHANGED <<store, localStorage>>
  /\ UNCHANGED <<nextId, clock, tokensIssued, started, lastIssue>>

(***************************************************************************)
(* logoutAdmin and resetAdminPassword                                      *)
(***************************************************************************)
\* logoutAdmin, lines 1347-1349 and 1358, entered with frame f: with no token
\* in the slot it finishes at once, otherwise it awaits the delete.
EnterLogout(b, f) ==
  IF localStorage[b] = Null
  THEN IF f.op = "resetAdminPassword" THEN ReturnBool(f, TRUE)
       ELSE ReturnVoid(f)
  ELSE [ f EXCEPT !.pc = "lo_del", !.token = localStorage[b], !.list = <<>> ]

logoutAdmin(b) ==
  /\ CanStart(b)
  /\ Step(b, EnterLogout(b, Enter(b, "logoutAdmin")))
  /\ Started(b)
  /\ disturbed' = TRUE
  /\ UNCHANGED <<store, nextId, localStorage, clock, tokensIssued,
                 lastIssue>>

\* logoutAdmin, line 1352: the request that deletes the session of the token.
LogoutDeleteNothing(table, token) == table
LogoutDelete(table, token) == deleteAdminSessionBySessionToken(table, token)

\* logoutAdmin, line 1358, after the try block: the slot is cleared whether
\* or not the delete threw.
SlotAfterLogoutInTry(slot, deleteThrew) == IF deleteThrew THEN slot ELSE Null
SlotAfterLogout(slot, deleteThrew) == Null

\* logoutAdmin, lines 1350-1358; line 1207 when resetAdminPassword called it.
logoutAdmin_delete(b) ==
  /\ call[b].pc = "lo_del"
  /\ \/ /\ store' = LogoutDelete(store, call[b].token)
        /\ Step(b, IF call[b].op = "resetAdminPassword"
                   THEN ReturnBool(Request(call[b]), TRUE)
                   ELSE ReturnVoid(Request(call[b])))
        /\ SetSlot(b, SlotAfterLogout(localStorage[b], FALSE))
        /\ UNCHANGED faults
     \/ /\ CanFail
        /\ faults' = [ faults EXCEPT !.thrown = @ + 1 ]
        /\ Step(b, Catch(Thrown(call[b]),
                         IF call[b].op = "resetAdminPassword"
                         THEN ReturnBool(Thrown(call[b]), TRUE)
                         ELSE ReturnVoid(Thrown(call[b]))))
        /\ SetSlot(b, SlotAfterLogout(localStorage[b], TRUE))
        /\ UNCHANGED store
  /\ disturbed' = TRUE
  /\ UNCHANGED <<nextId, clock, tokensIssued, started, lastIssue>>

\* resetAdminPassword, lines 1200-1202: every record found is deleted.
HashesToResetNone(q) == <<>>
HashesToReset(q) == q

resetAdminPassword(b) ==
  /\ CanStart(b)
  /\ Step(b, [ Enter(b, "resetAdminPassword") EXCEPT !.pc = "rs_get" ])
  /\ Started(b)
  /\ disturbed' = TRUE
  /\ UNCHANGED <<store, nextId, localStorage, clock, tokensIssued,
                 lastIssue>>

\* resetAdminPassword, line 1199, and line 1205 when there is nothing to
\* delete.
resetAdminPassword_get(b) ==
  /\ call[b].pc = "rs_get"
  /\ \/ /\ \E q \in Orderings(
                 getAdminSessionByUserId(store, PASSWORD_HASH_USER_ID)) :
             Step(b, IF HashesToReset(q) = <<>>
                     THEN EnterLogout(b, Request(call[b]))
                     ELSE [ Request(call[b]) EXCEPT
                              !.list = HashesToReset(q), !.pc = "rs_del" ])
        /\ UNCHANGED faults
     \/ /\ CanFail
        /\ faults' = [ faults EXCEPT !.thrown = @ + 1 ]
        /\ Step(b, Catch(Thrown(call[b]),
                       ReturnBool(Thrown(call[b]), FALSE)))
  /\ UNCHANGED <<store, nextId, localStorage, clock, tokensIssued, started,
                 lastIssue, disturbed>>

\* resetAdminPassword, lines 1200-1205.
resetAdminPassword_delete(b) ==
  /\ call[b].pc = "rs_del"
  /\ \/ /\ store' = deleteAdminSessionById(store, Head(call[b].list).id)
        /\ LET f == [ Request(call[b]) EXCEPT !.list = Tail(@) ]
           IN Step(b, IF f.list = <<>> THEN EnterLogout(b, f) ELSE f)
        /\ UNCHANGED faults
     \/ /\ CanFail
        /\ faults' = [ faults EXCEPT !.thrown = @ + 1 ]
        /\ Step(b, Catch(Thrown(call[b]),
                       ReturnBool(Thrown(call[b]), FALSE)))
        /\ UNCHANGED store
  /\ UNCHANGED <<nextId, localStorage, clock, tokensIssued, started,
                 lastIssue, disturbed>>

(***************************************************************************)
(* cleanupExpiredSessions                                                  *)
(***************************************************************************)
RECURSIVE SelectExpired(_, _)
SelectExpired(q, nowMs) ==
  IF q = <<>> THEN <<>>
  ELSE IF IsExpired(nowMs, Head(q).expires_at)
       THEN <<Head(q)>> \o SelectExpired(Tail(q), nowMs)
       ELSE SelectExpired(Tail(q), nowMs)

\* cleanupExpiredSessions, lines 1370-1379: the records the loop deletes.
ExpiredSessionsWithHash(q, nowMs) == SelectExpired(q, nowMs)
ExpiredSessions(q, nowMs) == SelectExpired(WithoutPasswordHash(q), nowMs)

cleanupExpiredSessions(b) ==
  /\ CanStart(b)
  /\ Step(b, [ Enter(b, "cleanupExpiredSessions") EXCEPT !.pc = "cl_get" ])
  /\ Started(b)
  /\ UNCHANGED <<store, nextId, localStorage, clock, tokensIssued,
                 lastIssue, disturbed>>

\* cleanupExpiredSessions, lines 1367-1377.
cleanupExpiredSessions_getAll(b) ==
  /\ call[b].pc = "cl_get"
  /\ \/ /\ \E q \in Orderings(getAllAdminSession(store)) :
             LET expired == ExpiredSessions(q, clock)
                 f == [ Request(call[b]) EXCEPT !.nowRead = clock,
                          !.list = expired ]
             IN Step(b, IF expired = <<>> THEN ReturnVoid(f)
                        ELSE [ f EXCEPT !.pc = "cl_del" ])
        /\ UNCHANGED <<faults, disturbed>>
     \/ /\ CanFail
        /\ faults' = [ faults EXCEPT !.thrown = @ + 1 ]
        /\ disturbed' = TRUE
        /\ Step(b, Catch(Thrown(call[b]),
                       ReturnVoid(Thrown(call[b]))))
  /\ UNCHANGED <<store, nextId, localStorage, clock, tokensIssued, started,
                 lastIssue>>

\* cleanupExpiredSessions, line 1378.
cleanupExpiredSessions_delete(b) ==
  /\ call[b].pc = "cl_del"
  /\ \/ /\ store' = deleteAdminSessionById(store, Head(call[b].list).id)
        /\ LET f == [ Request(call[b]) EXCEPT !.list = Tail(@) ]
           IN Step(b, IF f.list = <<>> THEN ReturnVoid(f) ELSE f)
        /\ UNCHANGED <<faults, disturbed>>
     \/ /\ CanFail
        /\ faults' = [ faults EXCEPT !.thrown = @ + 1 ]
        /\ disturbed' = TRUE
        /\ Step(b, Catch(Thrown(call[b]),
                       ReturnVoid(Thrown(call[b]))))
        /\ UNCHANGED store
  /\ UNCHANGED <<nextId, localStorage, clock, tokensIssued, started,
                 lastIssue>>

(***************************************************************************)
(* Time passes between calls: a call reads Date.now() at most once.        *)
(***************************************************************************)
Tick ==
  /\ \A b \in Browsers : ~InFlight(b)
  /\ \E t \in ClockPoints : t > clock /\ clock' = t
  /\ returned' = NoReturn
  /\ UNCHANGED <<store, nextId, localStorage, call, tokensIssued, started,
                 faults, lastIssue, disturbed>>
  /\ UNCHANGED <<pageVars, panel>>

Next ==
  \/ \E b \in Browsers :
       \/ authenticateAdmin(b)
       \/ isPasswordSet(b)
       \/ getStoredPasswordHash(b)
       \/ storePasswordHash_get(b)
       \/ storePasswordHash_delete(b)
       \/ storePasswordHash_insert(b)
       \/ authenticateAdmin_getAll(b)
       \/ authenticateAdmin_delete(b)
       \/ authenticateAdmin_insert(b)
       \/ validateSession(b)
       \/ validateSession_get(b)
       \/ validateSession_delete(b)
       \/ logoutAdmin(b)
       \/ logoutAdmin_delete(b)
       \/ resetAdminPassword(b)
       \/ resetAdminPassword_get(b)
       \/ resetAdminPassword_delete(b)
       \/ cleanupExpiredSessions(b)
       \/ cleanupExpiredSessions_getAll(b)
       \/ cleanupExpiredSessions_delete(b)
  \/ Tick

Spec == Init /\ [][Next]_vars

(***************************************************************************)
(* The petition form of App (src/src/routes/index.tsx, lines 133-200).     *)
(* The petition_signature table is shared; each browser instance has its   *)
(* own component state.  The submit button is disabled while isSubmitting  *)
(* (line 720) and the form is replaced by the thank-you card while         *)
(* submitSuccess (line 591), so a browser runs one onSubmit at a time.     *)
(***************************************************************************)
Emails == {"a@x.uk", "b@x.uk"}

\* PetitionSignatureORM: the requests onSubmit and the loaders make.
getAllPetitionSignature(table) == table
getPetitionSignatureByEmail(table, email) ==
  { r \in table : r.email = email }
insertPetitionSignature(table, email) ==
  table \cup { [ id |-> Cardinality(table) + 1, email |-> email ] }

\* onSubmit, line 165: existing.length > 0.
IsDuplicateNever(existing) == FALSE
IsDuplicate(existing) == existing # {}

\* The variables of the authentication service and of the admin panel, which
\* the petition form and the SEO settings leave alone.
serviceVars == <<store, nextId, localStorage, call, returned, clock,
                 tokensIssued, lastIssue, disturbed, panel>>

seoVars == <<seoStore, seo>>
formVars == <<signatureStore, petition>>

\* Browser b's form moves to f; wrote tells whether the step changed the
\* table under the onSubmit calls of the other browsers.
FormStep(b, f, wrote) ==
  petition' = [ c \in Browsers |->
                IF c = b THEN f
                ELSE [ petition[c] EXCEPT !.fresh = FALSE,
                         !.overlapped = @ \/ (wrote /\ petition[c].pc # "idle") ] ]

\* onSubmit ends: the finally block, lines 197-199.
Finish(f, outcome) ==
  [ f EXCEPT !.pc = "idle", !.isSubmitting = FALSE, !.outcome = outcome,
      !.fresh = TRUE ]

\* onSubmit, lines 157-160.
onSubmit(b) ==
  /\ petition[b].pc = "idle"
  /\ ~petition[b].isSubmitting /\ ~petition[b].submitSuccess
  /\ started < MaxCalls
  /\ started' = started + 1
  /\ \E email \in Emails :
       FormStep(b, [ petition[b] EXCEPT !.pc = "os_get", !.email = email,
                       !.isSubmitting = TRUE, !.submitError = "none",
                       !.outcome = "none", !.fresh = FALSE, !.calls = 0,
                       !.overlapped = FALSE, !.preStore = signatureStore ],
                FALSE)
  /\ UNCHANGED <<signatureStore, faults>>
  /\ UNCHANGED serviceVars /\ UNCHANGED seoVars

\* onSubmit, lines 163-171, and the catch block, lines 192-196.
onSubmit_getByEmail(b) ==
  /\ petition[b].pc = "os_get"
  /\ LET f == [ petition[b] EXCEPT !.calls = @ + 1 ]
     IN \/ /\ IF IsDuplicate(getPetitionSignatureByEmail(signatureStore,
                                                         f.email))
              THEN FormStep(b, Finish([ f EXCEPT !.submitError = "already" ],
                                      "duplicate"), FALSE)
              ELSE FormStep(b, [ f EXCEPT !.pc = "os_ins" ], FALSE)
           /\ UNCHANGED faults
        \/ /\ CanFail
           /\ faults' = [ faults EXCEPT !.thrown = @ + 1 ]
           /\ FormStep(b, Finish([ f EXCEPT !.submitError = "failed" ],
                                 "failure"), FALSE)
  /\ UNCHANGED <<signatureStore, started>>
  /\ UNCHANGED serviceVars /\ UNCHANGED seoVars

\* onSubmit, lines 174-191, and the catch block, lines 192-196.
onSubmit_insert(b) ==
  /\ petition[b].pc = "os_ins"
  /\ LET f == [ petition[b] EXCEPT !.calls = @ + 1 ]
     IN \/ /\ signatureStore' = insertPetitionSignature(signatureStore, f.email)
           /\ FormStep(b, Finish([ f EXCEPT !.submitSuccess = TRUE,
                                      !.counting = @ + 1 ], "success"), TRUE)
           /\ UNCHANGED faults
        \/ /\ CanFail
           /\ faults' = [ faults EXCEPT !.thrown = @ + 1 ]
           /\ FormStep(b, Finish([ f EXCEPT !.submitError = "failed" ],
                                 "failure"), FALSE)
           /\ UNCHANGED signatureStore
  /\ UNCHANGED started
  /\ UNCHANGED serviceVars /\ UNCHANGED seoVars

\* loadSignatureCount, lines 134-142, started on mount and by onSubmit.
loadSignatureCount(b) ==
  /\ petition[b].counting > 0
  /\ LET f == [ petition[b] EXCEPT !.counting = @ - 1, !.fresh = FALSE ]
     IN \/ /\ FormStep(b, [ f EXCEPT !.signatureCount =
                              Cardinality(getAllPetitionSignature(signatureStore)) ],
                       FALSE)
           /\ UNCHANGED faults
        \/ /\ CanFail
           /\ faults' = [ faults EXCEPT !.thrown = @ + 1 ]
           /\ FormStep(b, f, FALSE)
  /\ UNCHANGED <<signatureStore, started>>
  /\ UNCHANGED serviceVars /\ UNCHANGED seoVars

\* The "Sign another petition" button of the thank-you card, line 591.
signAnother(b) ==
  /\ petition[b].submitSuccess
  /\ FormStep(b, [ petition[b] EXCEPT !.submitSuccess = FALSE,
                     !.fresh = FALSE ], FALSE)
  /\ UNCHANGED <<signatureStore, started, faults>>
  /\ UNCHANGED serviceVars /\ UNCHANGED seoVars

PetitionNext ==
  \E b \in Browsers :
    \/ onSubmit(b)
    \/ onSubmit_getByEmail(b)
    \/ onSubmit_insert(b)
    \/ loadSignatureCount(b)
    \/ signAnother(b)

\* The form is mounted in every browser and no petition has been signed.
PetitionInit ==
  /\ Constructed
  /\ signatureStore = {} /\ petition = [ b \in Browsers |-> IdleForm ]
  /\ NoSeo /\ NoPanel

PetitionSpec == PetitionInit /\ [][PetitionNext]_vars

(***************************************************************************)
(* SEO settings (src/src/lib/seo-settings.ts) and the SEOProvider that     *)
(* holds them (src/src/contexts/SEOContext.tsx).  The seo_setting table is *)
(* shared; each browser instance has its own provider, which runs one call *)
(* at a time.                                                              *)
(***************************************************************************)
\* SEOSettings values the settings form accepts (seoSettingsSchema): the
\* first four fields are not empty, the last three may be.
SettingsInputs ==
  [ siteTitle : {"Title"}, metaDescription : {"Meta"},
    ogTitle : {"OG title"}, ogDescription : {"OG description"},
    ogImageUrl : {"", "https://x.uk/og.png"},
    canonicalUrl : {"", "https://x.uk"},
    twitterHandle : {"", "@x"} ]

\* JavaScript's value || other on strings and null.
OrElse(value, other) ==
  IF value = "" \/ value = SeoNull THEN other ELSE value

\* saveSEOSettings, lines 65-79: the record written for settings.
SettingsRecord(id, settings) ==
  [ id |-> id, setting_key |-> SEO_SETTINGS_KEY,
    site_title |-> settings.siteTitle,
    meta_description |-> settings.metaDescription,
    og_title |-> settings.ogTitle,
    og_description |-> settings.ogDescription,
    og_image_url |-> settings.ogImageUrl,
    canonical_url |-> settings.canonicalUrl,
    twitter_handle |-> OrElse(settings.twitterHandle, SeoNull) ]

\* getSEOSettings, lines 38-50: the settings read from a record.
SettingsOf(record) ==
  [ siteTitle |-> OrElse(record.site_title, DEFAULT_SEO_SETTINGS.siteTitle),
    metaDescription |->
      OrElse(record.meta_description, DEFAULT_SEO_SETTINGS.metaDescription),
    ogTitle |-> OrElse(record.og_title, DEFAULT_SEO_SETTINGS.ogTitle),
    ogDescription |->
      OrElse(record.og_description, DEFAULT_SEO_SETTINGS.ogDescription),
    ogImageUrl |-> OrElse(record.og_image_url, DEFAULT_SEO_SETTINGS.ogImageUrl),
    canonicalUrl |->
      OrElse(record.canonical_url, DEFAULT_SEO_SETTINGS.canonicalUrl),
    twitterHandle |->
      OrElse(record.twitter_handle, DEFAULT_SEO_SETTINGS.twitterHandle) ]

\* SeoSettingORM: the requests the two functions make.  An insert assigns
\* the id; an update by key rewrites the columns of every record of the key.
getSeoSettingBySettingKey(table, key) == { r \in table : r.setting_key = key }
setSeoSettingBySettingKey(table, key, data) ==
  { IF r.setting_key = key THEN [ data EXCEPT !.id = r.id ] ELSE r :
      r \in table }
insertSeoSetting(table, data) ==
  table \cup { [ data EXCEPT !.id = Cardinality(table) + 1 ] }

\* saveSEOSettings, line 81: existing.length > 0.
ExistingFoundNever(existing) == FALSE
ExistingFound(existing) == existing # {}

Saving(c) ==
  seo.provider[c].op = "updateSettings" /\ seo.provider[c].pc # "idle"

\* The history of a provider's last call is kept for one step after the
\* call ended.
Forget(f) ==
  IF f.pc # "idle" THEN f
  ELSE [ f EXCEPT !.fresh = FALSE, !.failed = FALSE, !.overlapped = FALSE,
           !.preStore = {}, !.newSettings = DEFAULT_SEO_SETTINGS,
           !.success = FALSE ]

\* Browser b's provider moves to f; wrote tells whether the step changed
\* the table under the calls of the other browsers.
SeoStep(b, f, wrote, lastSaved, raced) ==
  seo' = [ provider |->
             [ c \in Browsers |->
                 IF c = b THEN f
                 ELSE [ Forget(seo.provider[c]) EXCEPT
                          !.overlapped =
                             @ \/ (wrote /\ seo.provider[c].pc # "idle") ] ],
           lastSaved |-> lastSaved,
           raced |-> raced ]

EndCall(f) == [ f EXCEPT !.pc = "idle", !.fresh = TRUE, !.existing = {} ]

\* updateSettings, SEOContext.tsx lines 41-43, entering saveSEOSettings.
updateSettings(b) ==
  /\ seo.provider[b].pc = "idle"
  /\ started < MaxCalls
  /\ started' = started + 1
  /\ \E newSettings \in SettingsInputs :
       SeoStep(b, [ seo.provider[b] EXCEPT !.pc = "save_get",
                      !.op = "updateSettings", !.newSettings = newSettings,
                      !.existing = {}, !.success = FALSE, !.fresh = FALSE,
                      !.failed = FALSE, !.overlapped = FALSE,
                      !.preStore = seoStore ],
               FALSE, seo.lastSaved,
               seo.raced \/ \E c \in Browsers \ {b} : Saving(c))
  /\ UNCHANGED <<seoStore, faults>>
  /\ UNCHANGED serviceVars /\ UNCHANGED formVars

\* What updateSettings does with false from saveSEOSettings (its catch
\* block, lines 88-91): SEOContext.tsx lines 44-47.
NotSaved(f) == EndCall([ f EXCEPT !.failed = TRUE, !.success = FALSE ])

\* What it does with true: SEOContext.tsx lines 44-47.
Saved(f) == EndCall([ f EXCEPT !.success = TRUE, !.settings = f.newSettings ])

\* saveSEOSettings, lines 62-63 and 81.
saveSEOSettings_get(b) ==
  /\ seo.provider[b].pc = "save_get"
  /\ LET f == seo.provider[b]
     IN \/ /\ LET existing ==
                    getSeoSettingBySettingKey(seoStore, SEO_SETTINGS_KEY)
              IN SeoStep(b, [ f EXCEPT !.existing = existing,
                                !.pc = IF ExistingFound(existing)
                                       THEN "save_set" ELSE "save_ins" ],
                         FALSE, seo.lastSaved, seo.raced)
           /\ UNCHANGED faults
        \/ /\ CanFail
           /\ faults' = [ faults EXCEPT !.thrown = @ + 1 ]
           /\ SeoStep(b, NotSaved(f), FALSE, seo.lastSaved, seo.raced)
  /\ UNCHANGED <<seoStore, started>>
  /\ UNCHANGED serviceVars /\ UNCHANGED formVars

\* saveSEOSettings, lines 65-82 and 87: the record exists and is updated.
saveSEOSettings_set(b) ==
  /\ seo.provider[b].pc = "save_set"
  /\ LET f == seo.provider[b]
     IN \/ /\ \E first \in f.existing :
                seoStore' = setSeoSettingBySettingKey(
                              seoStore, SEO_SETTINGS_KEY,
                              SettingsRecord(first.id, f.newSettings))
           /\ SeoStep(b, Saved(f), TRUE, <<f.newSettings>>, seo.raced)
           /\ UNCHANGED faults
        \/ /\ CanFail
           /\ faults' = [ faults EXCEPT !.thrown = @ + 1 ]
           /\ SeoStep(b, NotSaved(f), FALSE, seo.lastSaved, seo.raced)
           /\ UNCHANGED seoStore
  /\ UNCHANGED started
  /\ UNCHANGED serviceVars /\ UNCHANGED formVars

\* saveSEOSettings, lines 65-79 and 83-87: no record yet, one is inserted.
saveSEOSettings_insert(b) ==
  /\ seo.provider[b].pc = "save_ins"
  /\ LET f == seo.provider[b]
     IN \/ /\ seoStore' = insertSeoSetting(seoStore,
                                           SettingsRecord(0, f.newSettings))
           /\ SeoStep(b, Saved(f), TRUE, <<f.newSettings>>, seo.raced)
           /\ UNCHANGED faults
        \/ /\ CanFail
           /\ faults' = [ faults EXCEPT !.thrown = @ + 1 ]
           /\ SeoStep(b, NotSaved(f), FALSE, seo.lastSaved, seo.raced)
           /\ UNCHANGED seoStore
  /\ UNCHANGED started
  /\ UNCHANGED serviceVars /\ UNCHANGED formVars

\* refreshSettings, SEOContext.tsx lines 29-31: a later refresh.
refreshSettings(b) ==
  /\ seo.provider[b].pc = "idle"
  /\ started < MaxCalls
  /\ started' = started + 1
  /\ SeoStep(b, [ seo.provider[b] EXCEPT !.pc = "get",
                    !.op = "refreshSettings", !.isLoading = TRUE,
                    !.fresh = FALSE, !.failed = FALSE, !.overlapped = FALSE,
                    !.preStore = seoStore ],
             FALSE, seo.lastSaved, seo.raced)
  /\ UNCHANGED <<seoStore, faults>>
  /\ UNCHANGED serviceVars /\ UNCHANGED formVars

\* getSEOSettings, lines 32-58, and what refreshSettings does with its
\* result, SEOContext.tsx lines 32-38.
getSEOSettings(b) ==
  /\ seo.provider[b].pc = "get"
  /\ LET f == [ seo.provider[b] EXCEPT !.isLoading = FALSE ]
     IN \/ /\ LET results ==
                    getSeoSettingBySettingKey(seoStore, SEO_SETTINGS_KEY)
              IN \E loaded \in IF results = {} THEN {DEFAULT_SEO_SETTINGS}
                               ELSE { SettingsOf(r) : r \in results } :
                   SeoStep(b, EndCall([ f EXCEPT !.settings = loaded ]),
                           FALSE, seo.lastSaved, seo.raced)
           /\ UNCHANGED faults
        \/ /\ CanFail
           /\ faults' = [ faults EXCEPT !.thrown = @ + 1 ]
           /\ SeoStep(b, EndCall([ f EXCEPT !.failed = TRUE,
                                     !.settings = DEFAULT_SEO_SETTINGS ]),
                      FALSE, seo.lastSaved, seo.raced)
  /\ UNCHANGED <<seoStore, started>>
  /\ UNCHANGED serviceVars /\ UNCHANGED formVars

SeoNext ==
  \E b \in Browsers :
    \/ updateSettings(b)
    \/ saveSEOSettings_get(b)
    \/ saveSEOSettings_set(b)
    \/ saveSEOSettings_insert(b)
    \/ refreshSettings(b)
    \/ getSEOSettings(b)

\* The provider is mounted in every browser and no settings are stored.
SeoInit ==
  /\ Constructed
  /\ NoPetition
  /\ seoStore = {}
  /\ seo = [ provider |-> [ b \in Browsers |-> MountedProvider ],
             lastSaved |-> <<>>,  \* history: settings of the last save
             raced |-> FALSE ]    \* history: two saves have overlapped
  /\ NoPanel

SeoSpec == SeoInit /\ [][SeoNext]_vars

(***************************************************************************)
(* The admin panel of App, lines 112-116 and 202-273.  Its handlers call   *)
(* the authentication service above and continue, in Continue, when the    *)
(* call returns; loadAllSignatures is started by handleAdminLogin and not  *)
(* awaited, so it ends at any later step.                                  *)
(***************************************************************************)

\* The petition_signature table when the page is opened: empty, or with the
\* signature the petition form has inserted.
SignatureTables == { {}, insertPetitionSignature({}, "a@x.uk") }

PanelInit ==
  /\ Constructed
  /\ signatureStore \in SignatureTables /\ petition = NoPages
  /\ NoSeo
  /\ panel = [ b \in Browsers |-> ClosedPanel ]

\* The variables of the service that a step of the panel alone leaves as
\* they are.
awaitedVars == <<store, nextId, localStorage, call, returned, clock,
                 tokensIssued, lastIssue, disturbed, started, faults>>

PanelStep(b, p) ==
  /\ panel' = [ panel EXCEPT ![b] = p ]
  /\ UNCHANGED awaitedVars
  /\ UNCHANGED formVars /\ UNCHANGED seoVars

\* The page is opened or reloaded in browser b: App mounts with the state
\* of its useState calls, and whatever the old page awaited is gone.
App(b) ==
  /\ panel[b].handler = "none"
  /\ call[b].pc = "idle"
  /\ PanelStep(b, MountedPanel)

\* checkExistingSession, line 210: validateSession() on the stored token.
checkExistingSession(b) ==
  /\ panel[b].handler = "mount"
  /\ validateSession(b)
  /\ (IF returned'.by = b THEN returned'.frame.arg ELSE call'[b].arg) = Null

\* checkExistingSession, line 215: isPasswordSet().
checkExistingSession_isPasswordSet(b) ==
  /\ panel[b].handler = "mount_ips"
  /\ isPasswordSet(b)

\* handleAdminLogin, lines 221-223; the form is rendered while the panel is
\* not authenticated, its button is disabled while isAdminLoading.
handleAdminLogin(b) ==
  /\ panel[b].mounted /\ panel[b].handler = "none"
  /\ ~panel[b].isAdminAuthenticated /\ ~panel[b].isAdminLoading
  /\ PanelStep(b, [ panel[b] EXCEPT !.handler = "login",
                      !.isAdminLoading = TRUE, !.adminError = "none" ])

\* handleAdminLogin, line 226: authenticateAdmin(adminPassword).
handleAdminLogin_authenticateAdmin(b) ==
  /\ panel[b].handler = "login"
  /\ authenticateAdmin(b)

\* handleResetPassword, lines 244-249, confirmed by the user; the button is
\* rendered while authenticated and disabled while isResettingPassword.
handleResetPassword(b) ==
  /\ panel[b].mounted /\ panel[b].handler = "none"
  /\ panel[b].isAdminAuthenticated /\ ~panel[b].isResettingPassword
  /\ PanelStep(b, [ panel[b] EXCEPT !.handler = "reset",
                      !.isResettingPassword = TRUE ])

\* handleResetPassword, line 251: resetAdminPassword().
handleResetPassword_resetAdminPassword(b) ==
  /\ panel[b].handler = "reset"
  /\ resetAdminPassword(b)

\* handleAdminLogout, line 268; the button is rendered while authenticated.
handleAdminLogout(b) ==
  /\ panel[b].mounted /\ panel[b].handler = "none"
  /\ panel[b].isAdminAuthenticated
  /\ PanelStep(b, [ panel[b] EXCEPT !.handler = "logout" ])

\* handleAdminLogout, line 269: logoutAdmin().
handleAdminLogout_logoutAdmin(b) ==
  /\ panel[b].handler = "logout"
  /\ logoutAdmin(b)

\* loadAllSignatures, lines 146-154: the request returns the table or throws.
loadAllSignatures(b) ==
  /\ panel[b].loading > 0
  /\ LET p == [ panel[b] EXCEPT !.loading = @ - 1,
                  !.isLoadingSignatures = FALSE ]
     IN \/ /\ panel' = [ panel EXCEPT ![b] =
                 [ p EXCEPT !.signatures =
                     getAllPetitionSignature(signatureStore) ] ]
           /\ UNCHANGED faults
        \/ /\ CanFail
           /\ faults' = [ faults EXCEPT !.thrown = @ + 1 ]
           /\ panel' = [ panel EXCEPT ![b] = p ]
  /\ UNCHANGED <<store, nextId, localStorage, call, returned, clock,
                 tokensIssued, lastIssue, disturbed, started>>
  /\ UNCHANGED formVars /\ UNCHANGED seoVars

PanelNext ==
  \/ \E b \in Browsers :
       \/ App(b)
       \/ checkExistingSession(b)
       \/ checkExistingSession_isPasswordSet(b)
       \/ handleAdminLogin(b)
       \/ handleAdminLogin_authenticateAdmin(b)
       \/ handleResetPassword(b)
       \/ handleResetPassword_resetAdminPassword(b)
       \/ handleAdminLogout(b)
       \/ handleAdminLogout_logoutAdmin(b)
       \/ loadAllSignatures(b)
       \/ getStoredPasswordHash(b)
       \/ storePasswordHash_get(b)
       \/ storePasswordHash_delete(b)
       \/ storePasswordHash_insert(b)
       \/ authenticateAdmin_getAll(b)
       \/ authenticateAdmin_delete(b)
       \/ authenticateAdmin_insert(b)
       \/ validateSession_get(b)
       \/ validateSession_delete(b)
       \/ logoutAdmin_delete(b)
       \/ resetAdminPassword_get(b)
       \/ resetAdminPassword_delete(b)
  \/ Tick

PanelSpec == PanelInit /\ [][PanelNext]_vars

(***************************************************************************)
(* Properties.  They are stated in the state right after a call returned:  *)
(* returned.frame holds its arguments, its result and the state it started *)
(* from, store and localStorage are the state it left.                     *)
(***************************************************************************)
Ret == returned.frame
RetSlot == localStorage[returned.by]
Returned(op) == returned.by # "none" /\ Ret.op = op

AllWhiteSpace(password) ==
  \A i \in 1..Len(password) : password[i] \in WhiteSpace
HashRecords(table) == { r \in table : r.user_id = PASSWORD_HASH_USER_ID }
RealSessions(table) == { r \in table : r.user_id # PASSWORD_HASH_USER_ID }

\* C1: authenticateAdmin with an empty or all-whitespace password returns
\* null without a single store request, and leaves the table and the local
\* token slot as they were.
C1_BlankPasswordRejected ==
  (Returned("authenticateAdmin") /\ AllWhiteSpace(Ret.password))
    => /\ Ret.retTok = Null
       /\ Ret.calls = 0
       /\ store = Ret.preStore
       /\ RetSlot = Ret.preSlot

C1_Witness ==
  /\ Returned("authenticateAdmin")
  /\ Ret.password = <<" ", "\t">>
  /\ Ret.retTok = Null
  /\ RealSessions(store) # {}
  /\ RetSlot # Null

\* C2: with a password hash stored, no request failing and no other call
\* running meanwhile, authenticateAdmin with a password whose digest differs
\* from the stored one returns null and changes neither the table nor the
\* local slot.
C2_WrongPasswordNoEffect ==
  ( /\ Returned("authenticateAdmin")
    /\ ~AllWhiteSpace(Ret.password)
    /\ ~Ret.failed /\ ~Ret.overlapped
    /\ HashRecords(Ret.preStore) # {}
    /\ \A r \in HashRecords(Ret.preStore) :
         r.session_token # hashPassword(Ret.password) )
    => /\ Ret.retTok = Null
       /\ store = Ret.preStore
       /\ RetSlot = Ret.preSlot

C2_Witness ==
  /\ Returned("authenticateAdmin")
  /\ ~AllWhiteSpace(Ret.password)
  /\ ~Ret.failed /\ ~Ret.overlapped
  /\ \E r \in HashRecords(Ret.preStore) :
       r.session_token # hashPassword(Ret.password)
  /\ Ret.retTok = Null
  /\ RealSessions(store) # {}
  /\ RetSlot # Null

\* C3: on an empty table, with no request failing and no other call running
\* meanwhile, authenticateAdmin with a non-blank password returns a token and
\* leaves exactly one password hash record, holding the digest of that
\* password, and exactly one record of user "admin"; and isPasswordSet, run
\* on a table that holds a password hash record, returns true.
C3_FirstLoginSetsPassword ==
  /\ ( /\ Returned("authenticateAdmin")
       /\ ~AllWhiteSpace(Ret.password)
       /\ ~Ret.failed /\ ~Ret.overlapped
       /\ Ret.preStore = {} )
       => /\ Ret.retTok # Null
          /\ Cardinality(HashRecords(store)) = 1
          /\ \A r \in HashRecords(store) :
               r.session_token = hashPassword(Ret.password)
          /\ Cardinality({ r \in store : r.user_id = ADMIN_USER_ID }) = 1
          /\ Cardinality(store) = 2
  /\ ( /\ Returned("isPasswordSet")
       /\ ~Ret.failed /\ ~Ret.overlapped
       /\ HashRecords(Ret.preStore) # {} )
       => Ret.retBool

C3_Witness ==
  /\ Returned("isPasswordSet")
  /\ Ret.retBool
  /\ nextId = 3
  /\ faults.thrown = 0 /\ faults.overlaps = 0
  /\ Cardinality(HashRecords(store)) = 1
  /\ Cardinality({ r \in store : r.user_id = ADMIN_USER_ID }) = 1

\* C4: when authenticateAdmin returns a token and no other call ran
\* meanwhile, the table holds exactly one record that is not the password
\* hash record: user "admin", that token, expires_at the second of issue plus
\* 24 hours; and the local slot holds the token.
C4_LoginLeavesOneSession ==
  ( /\ Returned("authenticateAdmin")
    /\ Ret.retTok # Null
    /\ ~Ret.overlapped )
    => /\ Cardinality(RealSessions(store)) = 1
       /\ \A r \in RealSessions(store) :
            /\ r.user_id = "admin"
            /\ r.session_token = Ret.retTok
            /\ r.expires_at = NumToString(NowSeconds(Ret.nowRead) + 86400)
       /\ RetSlot = Ret.retTok

C4_Witness ==
  /\ Returned("authenticateAdmin")
  /\ Ret.retTok # Null
  /\ ~Ret.overlapped
  /\ RealSessions(Ret.preStore) # {}
  /\ Ret.preSlot = Null

\* C5: of two successive successful logins, the second one not overlapped by
\* another call, the tokens differ; validateSession on the first token
\* returns false; validateSession on the second one returns true while it
\* has not expired and no logout, reset, further login or store failure came
\* after it.
C5_SecondLoginInvalidatesFirst ==
  /\ (lastIssue.token # Null) => lastIssue.token # lastIssue.prev
  /\ ( /\ Returned("validateSession")
       /\ lastIssue.prev # Null /\ lastIssue.clean
       /\ Ret.token = lastIssue.prev )
       => ~Ret.retBool
  /\ ( /\ Returned("validateSession")
       /\ lastIssue.prev # Null /\ lastIssue.clean
       /\ Ret.token = lastIssue.token
       /\ ~disturbed /\ ~Ret.failed
       /\ Ret.nowRead = lastIssue.ms )
       => Ret.retBool

C5_Witness ==
  /\ Returned("validateSession")
  /\ lastIssue.prev # Null /\ lastIssue.clean
  /\ Ret.arg = lastIssue.prev
  /\ ~Ret.retBool
  /\ \E r \in RealSessions(store) : r.session_token = lastIssue.token

\* C6 as claimed: the table never holds two records that are not the
\* password hash record.
C6_AtMostOneSessionAlways == Cardinality(RealSessions(store)) <= 1

\* C6, amended: the table never holds two records that are not the password
\* hash record, as long as no two authenticateAdmin calls have overlapped;
\* any other calls may interleave and store requests may fail.
C6_AtMostOneSession ==
  ~faults.authRace => Cardinality(RealSessions(store)) <= 1

C6_Witness ==
  /\ faults.overlaps = 1 /\ ~faults.authRace
  /\ Returned("authenticateAdmin")
  /\ Ret.retTok # Null
  /\ Ret.overlapped
  /\ Cardinality(RealSessions(store)) = 1

\* C7 as claimed: the table never holds two password hash records.
C7_AtMostOneHashAlways == Cardinality(HashRecords(store)) <= 1

\* C7, amended: the table never holds two password hash records, as long as
\* no two authenticateAdmin calls have overlapped; resetAdminPassword and any
\* other calls may interleave and store requests may fail.
C7_AtMostOneHash ==
  ~faults.authRace => Cardinality(HashRecords(store)) <= 1

C7_Witness ==
  /\ ~faults.authRace
  /\ call["b1"].pc = "auth_getAll"
  /\ call["b1"].failed
  /\ HashRecords(call["b1"].preStore) # {}
  /\ Cardinality(HashRecords(store)) = 1
  /\ HashRecords(store) # HashRecords(call["b1"].preStore)

\* C8: validateSession on a token equal to the stored password digest, with
\* no request failing and no other call running meanwhile, returns false,
\* empties the local slot and leaves the table, password hash record
\* included, as it was.
C8_HashRecordIsNoSession ==
  ( /\ Returned("validateSession")
    /\ ~Ret.failed /\ ~Ret.overlapped
    /\ \E r \in HashRecords(Ret.preStore) : r.session_token = Ret.token )
    => /\ ~Ret.retBool
       /\ RetSlot = Null
       /\ store = Ret.preStore

C8_Witness ==
  /\ Returned("validateSession")
  /\ ~Ret.failed /\ ~Ret.overlapped
  /\ \E r \in HashRecords(store) : r.session_token = Ret.arg
  /\ ~Ret.retBool
  /\ Ret.preSlot # Null /\ RetSlot = Null

\* C9: validateSession on a token whose session record has expires_at before
\* the current second, with no request failing and no other call running
\* meanwhile, returns false, removes exactly that record and empties the
\* local slot.
C9_ExpiredSessionRemoved ==
  ( /\ Returned("validateSession")
    /\ ~Ret.failed /\ ~Ret.overlapped )
    => \A r \in RealSessions(Ret.preStore) :
         ( /\ r.session_token = Ret.token
           /\ ParseInt(r.expires_at) < NowSeconds(Ret.nowRead) )
           => /\ ~Ret.retBool
              /\ store = Ret.preStore \ {r}
              /\ RetSlot = Null

C9_Witness ==
  /\ Returned("validateSession")
  /\ ~Ret.failed /\ ~Ret.overlapped
  /\ Ret.preSlot = Ret.token
  /\ \E r \in RealSessions(Ret.preStore) :
       /\ r.session_token = Ret.token
       /\ ParseInt(r.expires_at) < NowSeconds(Ret.nowRead)
       /\ store = Ret.preStore \ {r}
  /\ HashRecords(store) # {}

\* C10: the session record of a token issued in second s has
\* expires_at = s + 86400; and while no logout, reset, further login or store
\* failure came after the issue, validateSession on the token returns true
\* exactly when the current second is at most s + 86400.
C10_ValidFor24Hours ==
  /\ ( Returned("authenticateAdmin") /\ Ret.retTok # Null )
       => \E r \in store :
            /\ r.session_token = Ret.retTok
            /\ ParseInt(r.expires_at) = NowSeconds(Ret.nowRead) + 86400
  /\ ( /\ Returned("validateSession")
       /\ lastIssue.token # Null
       /\ Ret.token = lastIssue.token
       /\ ~disturbed /\ ~Ret.failed )
       => ( Ret.retBool <=>
              NowSeconds(Ret.nowRead) <= NowSeconds(lastIssue.ms) + 86400 )

C10_Witness ==
  /\ Returned("validateSession")
  /\ Ret.token = lastIssue.token
  /\ ~disturbed /\ ~Ret.failed
  /\ Ret.retBool
  /\ NowSeconds(Ret.nowRead) = NowSeconds(lastIssue.ms) + 86400

\* C11: a validateSession call that returns true has changed nothing: the
\* session record it validated, its expires_at included, every other record
\* of the store and the local slot are what they were when it was called.
C11_ValidationChangesNothing ==
  ( /\ Returned("validateSession")
    /\ Ret.retBool /\ ~Ret.overlapped )
    => /\ store = Ret.preStore
       /\ RetSlot = Ret.preSlot

\* A validation of an explicit token, other than the one in the slot, has
\* returned true, with the password hash record and the session in the store.
C11_Witness ==
  /\ Returned("validateSession")
  /\ Ret.retBool /\ ~Ret.overlapped
  /\ Ret.arg # Null /\ Ret.arg # Ret.preSlot
  /\ \E r \in RealSessions(store) : r.session_token = Ret.arg
  /\ HashRecords(store) # {}

\* The token a validateSession call is about: its argument, or else the token
\* the slot held when it was called.
RetAskedToken == IF Ret.arg # Null THEN Ret.arg ELSE Ret.preSlot

\* C12: validateSession on a token with no record in the store returns false
\* and clears the local slot; called with no argument while the slot is
\* empty it returns false without making any store request.
C12_UnknownTokenRejected ==
  /\ ( /\ Returned("validateSession")
       /\ ~Ret.failed /\ ~Ret.overlapped
       /\ RetAskedToken # Null
       /\ getAdminSessionBySessionToken(Ret.preStore, RetAskedToken) = {} )
       => /\ ~Ret.retBool
          /\ Ret.calls = 1
          /\ RetSlot = Null
          /\ store = Ret.preStore
  /\ ( /\ Returned("validateSession")
       /\ RetAskedToken = Null )
       => /\ ~Ret.retBool
          /\ Ret.calls = 0
          /\ RetSlot = Null
          /\ ~Ret.overlapped => store = Ret.preStore

\* A validation with no argument found the slot's token gone from the store,
\* which still holds other records, and cleared the slot.
C12_Witness ==
  /\ Returned("validateSession")
  /\ ~Ret.failed /\ ~Ret.overlapped
  /\ Ret.arg = Null /\ Ret.preSlot # Null
  /\ getAdminSessionBySessionToken(Ret.preStore, Ret.preSlot) = {}
  /\ RealSessions(store) # {}
  /\ RetSlot = Null

\* C13: after resetAdminPassword returns true no password is set:
\* isPasswordSet returns false, the next authenticateAdmin with any
\* non-blank password returns a token and makes the digest of that password
\* the stored password, and from then on a password with another digest,
\* the one from before the reset included, is refused.
C13_ResetStartsOver ==
  /\ ( /\ Returned("resetAdminPassword")
       /\ Ret.retBool /\ ~Ret.overlapped )
       => HashRecords(store) = {}
  /\ ( /\ Returned("isPasswordSet")
       /\ ~Ret.failed /\ ~Ret.overlapped
       /\ HashRecords(Ret.preStore) = {} )
       => ~Ret.retBool
  /\ ( /\ Returned("authenticateAdmin")
       /\ ~Ret.failed /\ ~Ret.overlapped
       /\ HashRecords(Ret.preStore) = {}
       /\ ~AllWhiteSpace(Ret.password) )
       => /\ Ret.retTok # Null
          /\ \E r \in store :
               /\ HashRecords(store) = {r}
               /\ r.session_token = hashPassword(Ret.password)
  /\ ( /\ Returned("authenticateAdmin")
       /\ ~Ret.failed /\ ~Ret.overlapped
       /\ HashRecords(Ret.preStore) # {}
       /\ \A r \in HashRecords(Ret.preStore) :
            r.session_token # hashPassword(Ret.password) )
       => /\ Ret.retTok = Null
          /\ HashRecords(store) = HashRecords(Ret.preStore)

\* A password was set, a reset deleted it, and the login after the reset has
\* returned a token and stored the digest of its password: three calls, no
\* request thrown and no two calls overlapping.
C13_Witness ==
  /\ Returned("authenticateAdmin")
  /\ Ret.retTok # Null
  /\ faults.thrown = 0 /\ faults.overlaps = 0
  /\ HashRecords(Ret.preStore) = {}
  /\ nextId = 5
  /\ \E r \in HashRecords(store) :
       r.id = 3 /\ r.session_token = hashPassword(Ret.password)

\* C14: after resetAdminPassword returns true no real session record is
\* left in the store, whichever browsers logged in before the reset.
C14_ResetRemovesEverySession ==
  ( /\ Returned("resetAdminPassword")
    /\ Ret.retBool
    /\ ~Ret.failed /\ ~Ret.overlapped )
    => RealSessions(store) = {}

\* C15: when logoutAdmin returns the local slot is empty, whether there was
\* no token, the delete succeeded or the delete threw; a validateSession
\* with no argument that finds the slot empty returns false.
C15_LogoutClearsSlot ==
  /\ Returned("logoutAdmin") => RetSlot = Null /\ ~Ret.threw
  /\ ( /\ Returned("validateSession")
       /\ Ret.arg = Null /\ Ret.preSlot = Null )
       => ~Ret.retBool

\* A logout whose delete request threw has returned: the session record is
\* still in the store and the slot is empty.
C15_Witness ==
  /\ Returned("logoutAdmin")
  /\ Ret.failed /\ Ret.preSlot # Null
  /\ \E r \in store : r.session_token = Ret.preSlot
  /\ RetSlot = Null

\* C16: logoutAdmin with token t in the slot and a working store deletes the
\* record whose session_token is t and no other record, so the password
\* hash record stays; a validateSession(t) called on the store it leaves
\* returns false.
C16_LogoutDeletesOwnSession ==
  /\ ( /\ Returned("logoutAdmin")
       /\ Ret.preSlot # Null
       /\ ~Ret.failed /\ ~Ret.overlapped )
       => /\ store = { r \in Ret.preStore : r.session_token # Ret.preSlot }
          /\ HashRecords(store) = HashRecords(Ret.preStore)
  /\ ( /\ Returned("validateSession")
       /\ Ret.arg # Null
       /\ ~Ret.overlapped
       /\ \A r \in Ret.preStore : r.session_token # Ret.arg )
       => ~Ret.retBool

\* A logout has deleted the session record of the slot's token and left the
\* password hash record in the store.
C16_Witness ==
  /\ Returned("logoutAdmin")
  /\ ~Ret.failed /\ ~Ret.overlapped
  /\ \E r \in RealSessions(Ret.preStore) :
       r.session_token = Ret.preSlot /\ r \notin store
  /\ HashRecords(store) # {}

\* C17: cleanupExpiredSessions deletes exactly the records whose user_id is
\* not the password hash sentinel and whose expires_at is earlier than the
\* current unix second; the hash record and the records with expires_at at
\* or after the current second stay.
C17_CleanupDeletesExpiredOnly ==
  ( /\ Returned("cleanupExpiredSessions")
    /\ ~Ret.failed /\ ~Ret.overlapped )
    => store = Ret.preStore \
                 { r \in Ret.preStore :
                     /\ r.user_id # PASSWORD_HASH_USER_ID
                     /\ ParseInt(r.expires_at) < NowSeconds(Ret.nowRead) }

\* A cleanup has deleted an expired session record and left the password
\* hash record, whose expires_at is "0", in the store.
C17_Witness ==
  /\ Returned("cleanupExpiredSessions")
  /\ ~Ret.failed /\ ~Ret.overlapped
  /\ RealSessions(Ret.preStore) # {}
  /\ RealSessions(store) = {}
  /\ HashRecords(store) # {}

\* A cleanup has returned and left a session record that expires in the
\* second it ran.
C17_WitnessKept ==
  /\ Returned("cleanupExpiredSessions")
  /\ ~Ret.failed /\ ~Ret.overlapped
  /\ \E r \in RealSessions(store) :
       ParseInt(r.expires_at) = NowSeconds(Ret.nowRead)

WritingPasswordHash == { "sph_get", "sph_del", "sph_ins" }
CreatingSession == { "auth_getAll", "auth_del", "auth_ins" }

\* C19: if a store request fails while authenticateAdmin is writing the
\* password hash or creating the session (deleting the old sessions,
\* inserting the new one), the call returns absent and writes no token into
\* the local slot.
C19_FailedLoginWritesNoToken ==
  ( /\ Returned("authenticateAdmin")
    /\ Ret.failedAt \in WritingPasswordHash \cup CreatingSession )
    => /\ Ret.retTok = Null
       /\ RetSlot = Ret.preSlot

\* A first login failed while writing the password hash: it returned absent
\* and left the slot empty.
C19_Witness ==
  /\ Returned("authenticateAdmin")
  /\ Ret.failedAt \in WritingPasswordHash
  /\ Ret.retTok = Null
  /\ RetSlot = Null

\* C20: when a first-time authenticateAdmin(P) has stored the hash but failed
\* to create the session, it returns absent and the digest of P is the
\* stored password; the next authenticateAdmin made with a working store
\* verifies against it: a token for P, absent for a password with another
\* digest.
C20_PartialBootstrapHeals ==
  /\ ( /\ Returned("authenticateAdmin")
       /\ ~Ret.overlapped
       /\ HashRecords(Ret.preStore) = {}
       /\ Ret.failedAt \in CreatingSession )
       => /\ Ret.retTok = Null
          /\ \E r \in store :
               /\ HashRecords(store) = {r}
               /\ r.session_token = hashPassword(Ret.password)
  /\ ( /\ Returned("authenticateAdmin")
       /\ ~Ret.failed /\ ~Ret.overlapped
       /\ RealSessions(Ret.preStore) = {}
       /\ Cardinality(HashRecords(Ret.preStore)) = 1 )
       => \A r \in HashRecords(Ret.preStore) :
            /\ Ret.retTok # Null
                 <=> r.session_token = hashPassword(Ret.password)
            /\ r \in store

\* The first login stored the hash and failed on the session; the next one,
\* with the same password and no failure, has returned a token.
C20_Witness ==
  /\ Returned("authenticateAdmin")
  /\ ~Ret.failed /\ ~Ret.overlapped
  /\ faults.thrown = 1
  /\ \E r \in Ret.preStore :
       /\ Ret.preStore = {r}
       /\ r.user_id = PASSWORD_HASH_USER_ID /\ r.id = 1
  /\ Ret.retTok # Null
  /\ \E r \in RealSessions(store) : r.session_token = Ret.retTok

\* The next login used a password with another digest and was refused.
C20_WitnessRefused ==
  /\ Returned("authenticateAdmin")
  /\ ~Ret.failed /\ ~Ret.overlapped
  /\ faults.thrown = 1
  /\ \E r \in Ret.preStore :
       /\ Ret.preStore = {r}
       /\ r.user_id = PASSWORD_HASH_USER_ID /\ r.id = 1
  /\ ~AllWhiteSpace(Ret.password)
  /\ Ret.retTok = Null

\* C21 as stated: isPasswordSet returns true if and only if the store holds
\* a password hash record, and it modifies neither the store nor the slot.
C21_PasswordSetIffHashRecord ==
  ( /\ Returned("isPasswordSet")
    /\ ~Ret.overlapped )
    => /\ Ret.retBool <=> HashRecords(Ret.preStore) # {}
       /\ store = Ret.preStore
       /\ RetSlot = Ret.preSlot

\* C21: isPasswordSet returns true if and only if the store holds a password
\* hash record and the read of it does not fail (a failed read gives false);
\* it modifies neither the store nor the local slot.
C21_PasswordSetIffHashRead ==
  ( /\ Returned("isPasswordSet")
    /\ ~Ret.overlapped )
    => /\ Ret.retBool <=> (HashRecords(Ret.preStore) # {} /\ ~Ret.failed)
       /\ Ret.calls = 1
       /\ store = Ret.preStore
       /\ RetSlot = Ret.preSlot

\* isPasswordSet has returned true on a store that holds a hash record and a
\* session, with the slot holding the session's token.
C21_Witness ==
  /\ Returned("isPasswordSet")
  /\ ~Ret.overlapped /\ Ret.retBool
  /\ HashRecords(store) # {}
  /\ RetSlot # Null

\* The digests held by the password hash records of a table.
StoredDigests(table) == { r.session_token : r \in HashRecords(table) }

\* C24: once a password hash record exists no authenticateAdmin call
\* replaces or removes it, store requests failing or not, and a call with a
\* password of another digest obtains no token.
C24_LoginNeverReplacesHash ==
  ( /\ Returned("authenticateAdmin")
    /\ ~Ret.overlapped
    /\ HashRecords(Ret.preStore) # {} )
    => /\ StoredDigests(store) = StoredDigests(Ret.preStore)
       /\ Ret.retTok # Null =>
            hashPassword(Ret.password) \in StoredDigests(Ret.preStore)

\* C25: after authenticateAdmin returned token t in a browser, its
\* validateSession() keeps returning true until t expires or a logout, reset
\* or other login occurs; in particular, the case stated here, a
\* validateSession(u) call with an explicit token u other than the token t
\* in the local slot leaves the slot holding t.
C25_ExplicitValidationKeepsSlot ==
  ( /\ Returned("validateSession")
    /\ Ret.arg # Null
    /\ Ret.preSlot # Null
    /\ Ret.arg # Ret.preSlot )
    => RetSlot = Ret.preSlot

\* The session records of a table that validateSession accepts at nowMs.
ValidSessions(table, nowMs) ==
  { r \in RealSessions(table) : ~IsExpired(nowMs, r.expires_at) }

\* C26: an authenticateAdmin call that returns absent invalidates no
\* session: every session record that validated when it was called is still
\* in the store when it returns, also when the password was right and a
\* store request failed while the session was created.
C26_FailedLoginKeepsSessions ==
  ( /\ Returned("authenticateAdmin")
    /\ Ret.retTok = Null
    /\ ~Ret.overlapped )
    => ValidSessions(Ret.preStore, clock) \subseteq store

\* C27: validateSession never returns true for a token that has no session
\* record or whose record has expires_at earlier than the current unix
\* second, whichever requests fail and whatever other calls overlap it: when
\* it returns true the store holds a session record of the token it was
\* asked about that has not expired at the second the call read.
C27_TrueOnlyForLiveSession ==
  ( /\ Returned("validateSession")
    /\ Ret.retBool )
    => /\ ~Ret.failed
       /\ Ret.token = RetAskedToken
       /\ \E r \in RealSessions(store) :
            /\ r.session_token = Ret.token
            /\ ParseInt(r.expires_at) >= NowSeconds(Ret.nowRead)
            /\ NowSeconds(Ret.nowRead) = NowSeconds(clock)

\* A validation found the record expired and the delete of it threw: it
\* returned false with the expired record still in the store.
C27_Witness ==
  /\ Returned("validateSession")
  /\ Ret.failedAt = "val_del"
  /\ ~Ret.retBool
  /\ \E r \in RealSessions(store) :
       /\ r.session_token = Ret.token
       /\ ParseInt(r.expires_at) < NowSeconds(clock)

\* A validation has returned true in the last second of the session's life.
C27_WitnessLastSecond ==
  /\ Returned("validateSession")
  /\ Ret.retBool
  /\ \E r \in RealSessions(store) :
       /\ r.session_token = Ret.token
       /\ ParseInt(r.expires_at) = NowSeconds(clock)

\* C22: an onSubmit for an email of which the table already holds a record
\* inserts no record, sets the "already signed" error, does not set
\* submitSuccess and leaves isSubmitting false; and on every path
\* (duplicate, success, store failure) isSubmitting is false once onSubmit
\* has finished.
C22_DuplicateSubmitRejected ==
  \A b \in Browsers :
    LET f == petition[b]
    IN /\ f.pc = "idle" => ~f.isSubmitting
       /\ f.fresh => f.outcome \in {"duplicate", "success", "failure"}
       /\ ( /\ f.fresh
            /\ f.outcome # "failure"
            /\ \E r \in f.preStore : r.email = f.email )
            => /\ f.outcome = "duplicate"
               /\ f.calls = 1
               /\ f.submitError = "already"
               /\ ~f.submitSuccess
               /\ ~f.isSubmitting
               /\ ~f.overlapped => signatureStore = f.preStore

\* A second submission of an email has just been rejected as a duplicate.
C22_Witness ==
  \E b \in Browsers :
    /\ petition[b].fresh
    /\ petition[b].outcome = "duplicate"
    /\ \E r \in signatureStore : r.email = petition[b].email
    /\ petition[b].submitError = "already"

\* C28: no two petition signature records of the table have the same
\* email, however the onSubmit calls of the browsers interleave.
C28_OneSignaturePerEmail ==
  \A r1, r2 \in signatureStore : r1.email = r2.email => r1 = r2

SeoRecords(table) == { r \in table : r.setting_key = SEO_SETTINGS_KEY }

\* C23: as long as no two saveSEOSettings calls have overlapped the table
\* holds at most one record with setting_key "__seo_settings__": a call
\* inserts only when the key lookup returned no record and otherwise updates
\* the record; a call returns true when its store requests succeeded and
\* false when one failed.
C23_OneSettingsRecord ==
  /\ ~seo.raced => Cardinality(SeoRecords(seoStore)) <= 1
  /\ \A b \in Browsers :
       LET f == seo.provider[b]
       IN ( f.fresh /\ f.op = "updateSettings" )
            => /\ f.success <=> ~f.failed
               /\ ~f.success /\ ~f.overlapped => seoStore = f.preStore
               /\ f.success /\ ~f.overlapped =>
                    /\ Cardinality(seoStore)
                         = IF SeoRecords(f.preStore) = {}
                           THEN Cardinality(f.preStore) + 1
                           ELSE Cardinality(f.preStore)
                    /\ { r.id : r \in f.preStore } \subseteq
                         { r.id : r \in seoStore }
                    /\ \A r \in SeoRecords(seoStore) :
                         r = SettingsRecord(r.id, f.newSettings)

\* A second save has returned true after updating the record the first one
\* inserted.
C23_Witness ==
  \E b \in Browsers :
    LET f == seo.provider[b]
    IN /\ f.fresh /\ f.op = "updateSettings" /\ f.success
       /\ ~f.overlapped
       /\ SeoRecords(f.preStore) # {}
       /\ seoStore # f.preStore
       /\ Cardinality(seoStore) = 1

\* C29: round trip of the SEO settings: after a save of settings s accepted
\* by the form has returned true, a refresh that reads the table, with no
\* request failing and no two saves overlapping, loads a value equal to s
\* field by field.
C29_SettingsRoundTrip ==
  \A b \in Browsers :
    LET f == seo.provider[b]
    IN ( /\ f.fresh /\ f.op = "refreshSettings"
         /\ ~f.failed
         /\ ~seo.raced
         /\ seo.lastSaved # <<>> )
         => f.settings = seo.lastSaved[1]

\* C30: whenever the admin panel has become authenticated, through
\* handleAdminLogin or through the validateSession check of the mount, the
\* load of the signatures was started, so that with a working store, once no
\* handler and no load is in progress, the signatures shown are the
\* signature records of the store; and whenever the panel is not
\* authenticated and no handler is in progress, the signatures shown are
\* empty.
C30_SignaturesFollowAuthentication ==
  \A b \in DOMAIN panel :
    LET p == panel[b]
    IN (p.mounted /\ p.handler = "none" /\ p.loading = 0
          /\ faults.thrown = 0)
         => /\ p.isAdminAuthenticated
                 => p.signatures = getAllPetitionSignature(signatureStore)
            /\ ~p.isAdminAuthenticated => p.signatures = {}

\* C30, the login path alone: a panel that handleAdminLogin authenticated
\* shows, with a working store and once its loads have ended, the signature
\* records of the store.
C30_LoginLoadsSignatures ==
  \A b \in DOMAIN panel :
    LET p == panel[b]
    IN (p.handler = "none" /\ p.loading = 0 /\ faults.thrown = 0
          /\ p.isAdminAuthenticated /\ ~p.viaMount)
         => p.signatures = getAllPetitionSignature(signatureStore)

\* C30, the mount path: a panel that checkExistingSession authenticated
\* shows the signature records of the store.
C30_MountLoadsSignatures ==
  \A b \in DOMAIN panel :
    LET p == panel[b]
    IN (p.handler = "none" /\ p.loading = 0 /\ faults.thrown = 0
          /\ p.isAdminAuthenticated /\ p.viaMount)
         => p.signatures = getAllPetitionSignature(signatureStore)

\* C30, after logout or reset: a panel that is not authenticated, with no
\* handler in progress, shows no signatures.
C30_LoggedOutShowsNone ==
  \A b \in DOMAIN panel :
    LET p == panel[b]
    IN (p.mounted /\ p.handler = "none" /\ ~p.isAdminAuthenticated)
         => p.signatures = {}

====
